---- MODULE Spec2Model ----
(***************************************************************************)
(* Model of src/ToDoListProgram.py: the TodoList class (the task list held *)
(* in memory, the JSON file behind it) and the operations the menu loop of *)
(* main() calls on it.  Strings are sequences of one-character strings.    *)
(***************************************************************************)
EXTENDS Integers, Sequences, FiniteSets, TLC

\* Bounds of the model.
MaxTasks == 3      \* add_task is not explored beyond this many tasks
MaxFailures == 1   \* save_tasks() fails at most this many times in a row

VARIABLES
    tasks,         \* self.tasks: the list of task dicts
    file,          \* the backing file self.filename: [exists, text]
    failures,      \* history: the save_tasks() calls that have failed since
                   \* the last one that succeeded
    last           \* the last call: its inputs, return value and output

vars == <<tasks, file, failures, last>>

----------------------------------------------------------------------------
\* Text helpers (Python built-ins used by the code).

Whitespace == {" "}

RECURSIVE lstrip(_)
lstrip(s) ==
    IF s # <<>> /\ Head(s) \in Whitespace THEN lstrip(Tail(s)) ELSE s

RECURSIVE rstrip(_)
rstrip(s) ==
    IF s # <<>> /\ s[Len(s)] \in Whitespace
    THEN rstrip(SubSeq(s, 1, Len(s) - 1))
    ELSE s

\* str.strip()
strip(s) == rstrip(lstrip(s))

LowerChar(c) ==
    CASE c = "Y" -> "y"
      [] c = "E" -> "e"
      [] c = "S" -> "s"
      [] c = "N" -> "n"
      [] c = "O" -> "o"
      [] OTHER -> c

\* str.lower()
lower(s) == [i \in 1..Len(s) |-> LowerChar(s[i])]

Digits == <<"0", "1", "2", "3", "4", "5", "6", "7", "8", "9">>

IsDigit(c) == \E d \in 1..10 : Digits[d] = c

DigitVal(c) == (CHOOSE d \in 1..10 : Digits[d] = c) - 1

RECURSIVE DigitsValue(_, _)
DigitsValue(s, acc) ==
    IF s = <<>> THEN acc ELSE DigitsValue(Tail(s), 10 * acc + DigitVal(Head(s)))

\* int(text): surrounding whitespace is dropped, one sign is allowed, the
\* rest must be one or more digits; anything else is a ValueError.
int(s) ==
    LET t == strip(s)
        signed == t # <<>> /\ Head(t) \in {"-", "+"}
        body == IF signed THEN Tail(t) ELSE t
        sign == IF signed /\ Head(t) = "-" THEN -1 ELSE 1
    IN  IF body = <<>> \/ \E i \in 1..Len(body) : ~IsDigit(body[i])
        THEN [ok |-> FALSE, value |-> 0]
        ELSE [ok |-> TRUE, value |-> sign * DigitsValue(body, 0)]

RECURSIVE NatToStr(_)
NatToStr(n) ==
    IF n < 10 THEN <<Digits[n + 1]>>
    ELSE NatToStr(n \div 10) \o <<Digits[(n % 10) + 1]>>

\* datetime.now().strftime("%Y-%m-%d %H:%M:%S"): the clock is the second
\* within the current minute, the leading fields are constant.
strftime(t) == <<"0", "0", ":">> \o <<Digits[(t \div 10) + 1], Digits[(t % 10) + 1]>>

----------------------------------------------------------------------------
\* The JSON file.  Its text is a sequence of tokens, each a sequence of
\* characters; object keys, commas and indentation are left out.

Quote == "\""
Backslash == "\\"

\* Mutant of Escape: the characters are written as they are.
EscapeRaw(s) == s

RECURSIVE Escape(_)
Escape(s) ==
    IF s = <<>> THEN <<>>
    ELSE IF Head(s) \in {Quote, Backslash}
         THEN <<Backslash, Head(s)>> \o Escape(Tail(s))
         ELSE <<Head(s)>> \o Escape(Tail(s))

EncStr(s) == <<Quote>> \o Escape(s) \o <<Quote>>

EncBool(b) == IF b THEN <<"t", "r", "u", "e">> ELSE <<"f", "a", "l", "s", "e">>

EncTask(t) ==
    << <<"{">>, NatToStr(t.id), EncStr(t.description), EncBool(t.completed),
       EncStr(t.created_at), <<"}">> >>

TokensPerTask == 6

RECURSIVE EncTasks(_)
EncTasks(ts) ==
    IF ts = <<>> THEN <<>> ELSE EncTask(Head(ts)) \o EncTasks(Tail(ts))


\* json.dump(self.tasks, file, indent=4)
json_dump(ts) == << <<"[">> >> \o EncTasks(ts) \o << <<"]">> >>

RECURSIVE Unescape(_)
Unescape(s) ==
    IF s = <<>> THEN [ok |-> TRUE, value |-> <<>>]
    ELSE IF Head(s) = Backslash
         THEN IF Len(s) < 2 THEN [ok |-> FALSE, value |-> <<>>]
              ELSE LET r == Unescape(Tail(Tail(s)))
                   IN  [ok |-> r.ok, value |-> <<s[2]>> \o r.value]
         ELSE IF Head(s) = Quote THEN [ok |-> FALSE, value |-> <<>>]
              ELSE LET r == Unescape(Tail(s))
                   IN  [ok |-> r.ok, value |-> <<Head(s)>> \o r.value]

DecStr(tok) ==
    IF Len(tok) < 2 \/ tok[1] # Quote \/ tok[Len(tok)] # Quote
    THEN [ok |-> FALSE, value |-> <<>>]
    ELSE Unescape(SubSeq(tok, 2, Len(tok) - 1))

DecInt(tok) ==
    IF tok = <<>> \/ \E i \in 1..Len(tok) : ~IsDigit(tok[i])
    THEN [ok |-> FALSE, value |-> 0]
    ELSE [ok |-> TRUE, value |-> DigitsValue(tok, 0)]

DecBool(tok) ==
    IF tok = EncBool(TRUE) THEN [ok |-> TRUE, value |-> TRUE]
    ELSE IF tok = EncBool(FALSE) THEN [ok |-> TRUE, value |-> FALSE]
    ELSE [ok |-> FALSE, value |-> FALSE]

DecTask(toks) ==
    LET i == DecInt(toks[2])
        d == DecStr(toks[3])
        c == DecBool(toks[4])
        a == DecStr(toks[5])
    IN  [ok |-> toks[1] = <<"{">> /\ toks[6] = <<"}">> /\ i.ok /\ d.ok /\ c.ok /\ a.ok,
         value |-> [id |-> i.value, description |-> d.value,
                    completed |-> c.value, created_at |-> a.value]]

RECURSIVE DecTasks(_)
DecTasks(toks) ==
    IF toks = <<>> THEN [ok |-> TRUE, value |-> <<>>]
    ELSE IF Len(toks) < TokensPerTask THEN [ok |-> FALSE, value |-> <<>>]
    ELSE LET t == DecTask(SubSeq(toks, 1, TokensPerTask))
             r == DecTasks(SubSeq(toks, TokensPerTask + 1, Len(toks)))
         IN  [ok |-> t.ok /\ r.ok, value |-> <<t.value>> \o r.value]

\* json.load(file): ok = FALSE stands for json.JSONDecodeError
json_load(text) ==
    IF Len(text) < 2 \/ text[1] # <<"[">> \/ text[Len(text)] # <<"]">>
    THEN [ok |-> FALSE, value |-> <<>>]
    ELSE LET r == DecTasks(SubSeq(text, 2, Len(text) - 1))
         IN  IF r.ok THEN r ELSE [ok |-> FALSE, value |-> <<>>]

----------------------------------------------------------------------------
\* Messages the code prints (the interpolated number is last.n).

MsgNone == ""
MsgCorrupted == "Warning: file is corrupted. Starting with empty list."
MsgErrorLoading == "Error loading tasks"
MsgErrorSaving == "Error saving tasks"
MsgEmptyDescription == "Error: Task description cannot be empty."
MsgAdded == "Task added successfully!"
MsgNoTasks == "No tasks found. Your to-do list is empty!"
MsgNoPending == "No pending tasks found. Great job!"
MsgList == "YOUR TO-DO LIST"
MsgNotNumber == "Error: Task ID must be a number."
MsgNotExist == "Error: Task with ID does not exist."
MsgDeleted == "Task deleted successfully!"
MsgDeletionCancelled == "Deletion cancelled."
MsgAlreadyCompleted == "Task is already marked as completed."
MsgMarkedCompleted == "Task marked as completed!"
MsgAlreadyIncomplete == "Task is already marked as incomplete."
MsgMarkedIncomplete == "Task marked as incomplete!"
MsgNoCompleted == "No completed tasks to clear."
MsgCleared == "Cleared completed task(s)!"
MsgOperationCancelled == "Operation cancelled."

----------------------------------------------------------------------------
\* Inputs.

Absent == [exists |-> FALSE, text |-> <<>>]
EmptyFile == [exists |-> TRUE, text |-> <<>>]

Descriptions ==
    { <<>>, <<" ", " ">>, <<" ", "a", Quote, " ">> }

IdTexts ==
    { <<"1">>, <<" ", "0", "2">>, <<"3">>, <<"x">> }

Confirms ==
    { <<"Y", "e", "s">>, <<"n", "o">> }

\* What datetime.now() may return: a second of the current minute.
Times == {59}

\* How a save_tasks() call goes: it succeeds, open() fails, or the write
\* fails after k tokens have reached the file.
SaveIOs ==
    { [kind |-> "ok", k |-> 0], [kind |-> "open", k |-> 0], [kind |-> "write", k |-> 1] }

Min(a, b) == IF a < b THEN a ELSE b

----------------------------------------------------------------------------
\* TodoList

\* Mutant of load_tasks: the handler "except Exception" is missing.
load_tasks_unhandled(f, ioError) ==
    IF ~f.exists THEN [tasks |-> <<>>, msg |-> MsgNone, raised |-> FALSE]
    ELSE IF ioError THEN [tasks |-> <<>>, msg |-> MsgNone, raised |-> TRUE]
    ELSE LET r == json_load(f.text)
         IN  IF r.ok THEN [tasks |-> r.value, msg |-> MsgNone, raised |-> FALSE]
             ELSE [tasks |-> <<>>, msg |-> MsgCorrupted, raised |-> FALSE]

\* load_tasks(): the list loaded and the line printed.  raised says whether
\* an exception leaves the method; ioError is a failing open()/read().
load_tasks(f, ioError) ==
    IF ~f.exists THEN [tasks |-> <<>>, msg |-> MsgNone, raised |-> FALSE]
    ELSE IF ioError THEN [tasks |-> <<>>, msg |-> MsgErrorLoading, raised |-> FALSE]
    ELSE LET r == json_load(f.text)
         IN  IF r.ok THEN [tasks |-> r.value, msg |-> MsgNone, raised |-> FALSE]
             ELSE [tasks |-> <<>>, msg |-> MsgCorrupted, raised |-> FALSE]

\* Mutant of save_tasks: the handler's "return False" is missing.
save_tasks_always_true(ts, f, io) ==
    LET text == json_dump(ts)
    IN  IF io.kind = "ok" THEN [file |-> [exists |-> TRUE, text |-> text], ret |-> TRUE]
        ELSE IF io.kind = "open" THEN [file |-> f, ret |-> TRUE]
        ELSE [file |-> [exists |-> TRUE,
                        text |-> SubSeq(text, 1, Min(io.k, Len(text) - 1))],
              ret |-> TRUE]

\* save_tasks(): the file afterwards and the value returned.  open(.., 'w')
\* truncates the file, so a failing write leaves a prefix of the text.
save_tasks(ts, f, io) ==
    LET text == json_dump(ts)
    IN  IF io.kind = "ok" THEN [file |-> [exists |-> TRUE, text |-> text], ret |-> TRUE]
        ELSE IF io.kind = "open" THEN [file |-> f, ret |-> FALSE]
        ELSE [file |-> [exists |-> TRUE,
                        text |-> SubSeq(text, 1, Min(io.k, Len(text) - 1))],
              ret |-> FALSE]

\* The ways the next save_tasks() call may go.
SaveIOsNow == IF failures < MaxFailures THEN SaveIOs ELSE {[kind |-> "ok", k |-> 0]}

\* The failures counted after one more call that went as io.
FailuresAfter(io) == IF io.kind = "ok" THEN 0 ELSE failures + 1

IoOf(io) == IF io.kind = "ok" THEN "ok" ELSE "failed"

PyBool(b) == IF b THEN "True" ELSE "False"

NoSummary == [shown |-> FALSE, total |-> 0, completed |-> 0, pending |-> 0]

\* A call with no inputs and no output; each action fills in its own.
Call(op) ==
    [op |-> op, arg |-> <<>>, show_all |-> TRUE, prompted |-> FALSE,
     confirm |-> <<>>, io |-> "none", ret |-> "None", msg |-> MsgNone, n |-> 0,
     items |-> <<>>, summary |-> NoSummary]

\* Mutant of IsEmptyDescription: the .strip() test is missing.
IsEmptyDescription_no_strip(description) == description = <<>>

\* not description or description.strip() == ''
IsEmptyDescription(description) ==
    description = <<>> \/ strip(description) = <<>>

\* Mutant of NewTask: the id is the count, not the count + 1.
NewTask_id_off_by_one(ts, description, now) ==
    [id |-> Len(ts), description |-> strip(description),
     completed |-> FALSE, created_at |-> strftime(now)]

\* The task dict add_task builds.
NewTask(ts, description, now) ==
    [id |-> Len(ts) + 1, description |-> strip(description),
     completed |-> FALSE, created_at |-> strftime(now)]

\* Mutant of FindIndex: the loop has no break, the last match wins.
FindIndex_last(ts, task_id) ==
    IF \E i \in 1..Len(ts) : ts[i].id = task_id
    THEN CHOOSE i \in 1..Len(ts) :
            ts[i].id = task_id /\ \A j \in (i + 1)..Len(ts) : ts[j].id # task_id
    ELSE 0

\* The index of the first task with the given id; 0 stands for None.
FindIndex(ts, task_id) ==
    IF \E i \in 1..Len(ts) : ts[i].id = task_id
    THEN CHOOSE i \in 1..Len(ts) :
            ts[i].id = task_id /\ \A j \in 1..(i - 1) : ts[j].id # task_id
    ELSE 0

\* self.tasks.pop(task_index)
Pop(ts, i) == SubSeq(ts, 1, i - 1) \o SubSeq(ts, i + 1, Len(ts))

\* Mutant of SetCompleted: every task with the id found is changed.
SetCompleted_all_with_id(ts, i, value) ==
    [k \in 1..Len(ts) |->
        IF ts[k].id = ts[i].id THEN [ts[k] EXCEPT !.completed = value] ELSE ts[k]]

\* task['completed'] = value, on the task found
SetCompleted(ts, i, value) == [ts EXCEPT ![i].completed = value]

\* confirm == 'yes', after .lower()
IsYes(confirm) == lower(confirm) = <<"y", "e", "s">>

IsCompleted(t) == t.completed
IsPending(t) == ~t.completed

\* [t for t in self.tasks if t['completed']]
CompletedTasks(ts) == SelectSeq(ts, IsCompleted)

\* Mutant of PendingTasks: the "not" of the filter is missing.
PendingTasks_inverted(ts) == SelectSeq(ts, IsCompleted)

\* self.tasks = [t for t in self.tasks if not t['completed']]
PendingTasks(ts) == SelectSeq(ts, IsPending)

\* tasks_to_show = self.tasks if show_all else [t for ... if not t['completed']]
TasksToShow(ts, show_all) == IF show_all THEN ts ELSE SelectSeq(ts, IsPending)

\* Mutant of Summary: the counts are taken over the tasks shown.
Summary_of_shown(ts, tasks_to_show) ==
    LET total == Len(tasks_to_show)
        completed == Len(CompletedTasks(tasks_to_show))
    IN  [shown |-> TRUE, total |-> total, completed |-> completed,
         pending |-> total - completed]

\* The summary line of view_tasks.
Summary(ts, tasks_to_show) ==
    LET total == Len(ts)
        completed == Len(CompletedTasks(ts))
    IN  [shown |-> TRUE, total |-> total, completed |-> completed,
         pending |-> total - completed]

\* TodoList.__init__, at the start of main(): the program is started again
\* on the file the earlier run left.
TodoList_init(ioError) ==
    LET l == load_tasks(file, ioError)
    IN  /\ tasks' = l.tasks
        /\ file' = file
        /\ failures' = failures
        /\ last' = [Call("init") EXCEPT
                      !.io = IF ~file.exists THEN "none"
                             ELSE IF ioError THEN "failed" ELSE "ok",
                      !.msg = l.msg,
                      !.ret = IF l.raised THEN "Raised" ELSE "None"]

add_task(description) ==
    IF IsEmptyDescription(description)
    THEN /\ last' = [Call("add") EXCEPT !.arg = description, !.ret = "False",
                                        !.msg = MsgEmptyDescription]
         /\ UNCHANGED <<tasks, file, failures>>
    ELSE \E now \in Times, io \in SaveIOsNow :
         LET task == NewTask(tasks, description, now)
             new == Append(tasks, task)
             s == save_tasks(new, file, io)
         IN  /\ Len(tasks) < MaxTasks
             /\ tasks' = new
             /\ file' = s.file
             /\ failures' = FailuresAfter(io)
             /\ last' = [Call("add") EXCEPT
                           !.arg = description, !.io = IoOf(io),
                           !.ret = PyBool(s.ret), !.n = task.id,
                           !.msg = IF s.ret THEN MsgAdded ELSE MsgErrorSaving]

view_tasks(show_all) ==
    LET tasks_to_show == TasksToShow(tasks, show_all)
    IN  /\ UNCHANGED <<tasks, file, failures>>
        /\ last' = IF tasks = <<>>
                   THEN [Call("view") EXCEPT !.show_all = show_all, !.msg = MsgNoTasks]
                   ELSE IF tasks_to_show = <<>>
                   THEN [Call("view") EXCEPT !.show_all = show_all, !.msg = MsgNoPending]
                   ELSE [Call("view") EXCEPT
                           !.show_all = show_all, !.msg = MsgList,
                           !.items = tasks_to_show,
                           !.summary = Summary(tasks, tasks_to_show)]

delete_task(task_id) ==
    LET id == int(task_id)
        task_index == FindIndex(tasks, id.value)
    IN  IF ~id.ok
        THEN /\ last' = [Call("delete") EXCEPT !.arg = task_id, !.ret = "False",
                                               !.msg = MsgNotNumber]
             /\ UNCHANGED <<tasks, file, failures>>
        ELSE IF task_index = 0
        THEN /\ last' = [Call("delete") EXCEPT !.arg = task_id, !.ret = "False",
                                               !.msg = MsgNotExist, !.n = id.value]
             /\ UNCHANGED <<tasks, file, failures>>
        ELSE \E confirm \in Confirms :
             IF ~IsYes(confirm)
             THEN /\ last' = [Call("delete") EXCEPT
                                !.arg = task_id, !.prompted = TRUE,
                                !.confirm = confirm, !.ret = "False",
                                !.msg = MsgDeletionCancelled]
                  /\ UNCHANGED <<tasks, file, failures>>
             ELSE \E io \in SaveIOsNow :
                  LET new == Pop(tasks, task_index)
                      s == save_tasks(new, file, io)
                  IN  /\ tasks' = new
                      /\ file' = s.file
                      /\ failures' = FailuresAfter(io)
                      /\ last' = [Call("delete") EXCEPT
                                    !.arg = task_id, !.prompted = TRUE,
                                    !.confirm = confirm, !.io = IoOf(io),
                                    !.ret = PyBool(s.ret), !.n = id.value,
                                    !.msg = IF s.ret THEN MsgDeleted
                                            ELSE MsgErrorSaving]

mark_complete(task_id) ==
    LET id == int(task_id)
        i == FindIndex(tasks, id.value)
    IN  IF ~id.ok
        THEN /\ last' = [Call("mark_complete") EXCEPT
                           !.arg = task_id, !.ret = "False", !.msg = MsgNotNumber]
             /\ UNCHANGED <<tasks, file, failures>>
        ELSE IF i = 0
        THEN /\ last' = [Call("mark_complete") EXCEPT
                           !.arg = task_id, !.ret = "False", !.msg = MsgNotExist,
                           !.n = id.value]
             /\ UNCHANGED <<tasks, file, failures>>
        ELSE IF tasks[i].completed
        THEN /\ last' = [Call("mark_complete") EXCEPT
                           !.arg = task_id, !.ret = "False",
                           !.msg = MsgAlreadyCompleted, !.n = id.value]
             /\ UNCHANGED <<tasks, file, failures>>
        ELSE \E io \in SaveIOsNow :
             LET new == SetCompleted(tasks, i, TRUE)
                 s == save_tasks(new, file, io)
             IN  /\ tasks' = new
                 /\ file' = s.file
                 /\ failures' = FailuresAfter(io)
                 /\ last' = [Call("mark_complete") EXCEPT
                               !.arg = task_id, !.io = IoOf(io),
                               !.ret = PyBool(s.ret), !.n = id.value,
                               !.msg = IF s.ret THEN MsgMarkedCompleted
                                       ELSE MsgErrorSaving]

mark_incomplete(task_id) ==
    LET id == int(task_id)
        i == FindIndex(tasks, id.value)
    IN  IF ~id.ok
        THEN /\ last' = [Call("mark_incomplete") EXCEPT
                           !.arg = task_id, !.ret = "False", !.msg = MsgNotNumber]
             /\ UNCHANGED <<tasks, file, failures>>
        ELSE IF i = 0
        THEN /\ last' = [Call("mark_incomplete") EXCEPT
                           !.arg = task_id, !.ret = "False", !.msg = MsgNotExist,
                           !.n = id.value]
             /\ UNCHANGED <<tasks, file, failures>>
        ELSE IF ~tasks[i].completed
        THEN /\ last' = [Call("mark_incomplete") EXCEPT
                           !.arg = task_id, !.ret = "False",
                           !.msg = MsgAlreadyIncomplete, !.n = id.value]
             /\ UNCHANGED <<tasks, file, failures>>
        ELSE \E io \in SaveIOsNow :
             LET new == SetCompleted(tasks, i, FALSE)
                 s == save_tasks(new, file, io)
             IN  /\ tasks' = new
                 /\ file' = s.file
                 /\ failures' = FailuresAfter(io)
                 /\ last' = [Call("mark_incomplete") EXCEPT
                               !.arg = task_id, !.io = IoOf(io),
                               !.ret = PyBool(s.ret), !.n = id.value,
                               !.msg = IF s.ret THEN MsgMarkedIncomplete
                                       ELSE MsgErrorSaving]

clear_completed ==
    LET completed_tasks == CompletedTasks(tasks)
    IN  IF completed_tasks = <<>>
        THEN /\ last' = [Call("clear") EXCEPT !.ret = "False", !.msg = MsgNoCompleted]
             /\ UNCHANGED <<tasks, file, failures>>
        ELSE \E confirm \in Confirms :
             IF ~IsYes(confirm)
             THEN /\ last' = [Call("clear") EXCEPT
                                !.prompted = TRUE, !.confirm = confirm,
                                !.ret = "False", !.msg = MsgOperationCancelled]
                  /\ UNCHANGED <<tasks, file, failures>>
             ELSE \E io \in SaveIOsNow :
                  LET new == PendingTasks(tasks)
                      s == save_tasks(new, file, io)
                  IN  /\ tasks' = new
                      /\ file' = s.file
                      /\ failures' = FailuresAfter(io)
                      /\ last' = [Call("clear") EXCEPT
                                    !.prompted = TRUE, !.confirm = confirm,
                                    !.io = IoOf(io), !.ret = PyBool(s.ret),
                                    !.n = IF s.ret THEN Len(completed_tasks) ELSE 0,
                                    !.msg = IF s.ret THEN MsgCleared
                                            ELSE MsgErrorSaving]

\* The state main() is in after todo = TodoList(): the file is absent or
\* is not JSON (an empty file), or cannot be read.
Init ==
    \E f \in {Absent, EmptyFile}, ioError \in BOOLEAN :
        LET l == load_tasks(f, ioError)
        IN  /\ tasks = l.tasks
            /\ file = f
            /\ failures = 0
            /\ last = [Call("init") EXCEPT
                         !.io = IF ~f.exists THEN "none"
                                ELSE IF ioError THEN "failed" ELSE "ok",
                         !.msg = l.msg,
                         !.ret = IF l.raised THEN "Raised" ELSE "None"]

\* One choice of the menu loop of main(); choice 8 followed by a new start
\* of the program is TodoList_init.
Next ==
    \/ \E description \in Descriptions : add_task(description)
    \/ \E show_all \in BOOLEAN : view_tasks(show_all)
    \/ \E task_id \in IdTexts : mark_complete(task_id)
    \/ \E task_id \in IdTexts : mark_incomplete(task_id)
    \/ \E task_id \in IdTexts : delete_task(task_id)
    \/ clear_completed
    \/ \E ioError \in BOOLEAN : TodoList_init(ioError)

Spec == Init /\ [][Next]_vars

----------------------------------------------------------------------------
\* Properties.  last' tells which call a step is, and what it was given.

\* A description that is empty or holds spaces only.
Blank(s) == \A i \in 1..Len(s) : s[i] = " "

NotDone(t) == t.completed = FALSE

\* The positions of the tasks that carry the id.
Hits(ts, id) == {i \in 1..Len(ts) : ts[i].id = id}

First(S) == CHOOSE k \in S : \A j \in S : k <= j

Without(ts, k) == [i \in 1..(Len(ts) - 1) |-> IF i < k THEN ts[i] ELSE ts[i + 1]]

Yes == <<"y", "e", "s">>

\* The file holds exactly the list t, and loading it gives t back.
Synced(f, t) ==
    /\ f.exists
    /\ f.text = json_dump(t)
    /\ load_tasks(f, FALSE) = [tasks |-> t, msg |-> MsgNone, raised |-> FALSE]

\* C1: the id add gives a new task is carried by no other task of the list
\* at that moment.
C1_IdUniqueAtCreation ==
    (last.op = "add" /\ ~Blank(last.arg)) =>
        \A i \in 1..(Len(tasks) - 1) : tasks[i].id # tasks[Len(tasks)].id

\* C2: add of a description that is not blank appends exactly one task, with
\* id = count before + 1 and completed = false; the earlier tasks stay as
\* they were, in the same order.
C2_AddAppendsOne ==
    [][(last'.op = "add" /\ ~Blank(last'.arg)) =>
          /\ Len(tasks') = Len(tasks) + 1
          /\ SubSeq(tasks', 1, Len(tasks)) = tasks
          /\ tasks'[Len(tasks')].id = Len(tasks) + 1
          /\ tasks'[Len(tasks')].completed = FALSE
          /\ tasks'[Len(tasks')].description = strip(last'.arg)]_vars

C2_Witness ==
    /\ last.op = "add"
    /\ last.arg = <<" ", "a", Quote, " ">>
    /\ Len(tasks) = 3
    /\ tasks[1].id = 2
    /\ tasks[2].completed
    /\ tasks[3] = [id |-> 3, description |-> <<"a", Quote>>, completed |-> FALSE,
                   created_at |-> <<"0", "0", ":", "5", "9">>]

\* C3: add of a blank description fails with the empty-description error,
\* leaves the list as it was and does not write the file.
C3_BlankRejected ==
    [][(last'.op = "add" /\ Blank(last'.arg)) =>
          /\ tasks' = tasks
          /\ file' = file
          /\ last'.io = "none"
          /\ last'.ret = "False"
          /\ last'.msg = MsgEmptyDescription]_vars

C3_Witness ==
    /\ last.op = "add"
    /\ last.arg = <<" ", " ">>
    /\ last.msg = MsgEmptyDescription
    /\ Len(tasks) = 2

\* C4: delete of a text that is no number fails with the not-a-number error,
\* of a number no task carries with the does-not-exist error, both without
\* a change; of a known id with an answer other than yes it is cancelled
\* (a message of its own) without a change; with yes it removes the first
\* task carrying the id and nothing else.
C4_DeleteOutcomes ==
    [][last'.op = "delete" =>
          LET id == int(last'.arg)
              hits == Hits(tasks, id.value)
          IN  IF ~id.ok
              THEN /\ tasks' = tasks /\ file' = file
                   /\ ~last'.prompted
                   /\ last'.ret = "False" /\ last'.msg = MsgNotNumber
              ELSE IF hits = {}
              THEN /\ tasks' = tasks /\ file' = file
                   /\ ~last'.prompted
                   /\ last'.ret = "False" /\ last'.msg = MsgNotExist
              ELSE IF lower(last'.confirm) # Yes
              THEN /\ tasks' = tasks /\ file' = file
                   /\ last'.prompted
                   /\ last'.msg = MsgDeletionCancelled
                   /\ last'.msg \notin {MsgNotNumber, MsgNotExist, MsgErrorSaving}
              ELSE /\ last'.prompted
                   /\ tasks' = Without(tasks, First(hits))]_vars

C4_Witness ==
    /\ last.op = "delete"
    /\ last.arg = <<"3">>
    /\ last.msg = MsgDeleted
    /\ Len(tasks) = 2
    /\ tasks[1].id = 2
    /\ tasks[2].id = 3
    /\ ~tasks[2].completed

\* C5: marking a task complete (incomplete) that already is so reports it,
\* changes nothing and does not call save_tasks; otherwise it sets the
\* completed flag of the first task carrying the id, and of no other, and
\* calls save_tasks.
C5_SetCompleted ==
    [][last'.op \in {"mark_complete", "mark_incomplete"} =>
          LET value == (last'.op = "mark_complete")
              id == int(last'.arg)
              hits == Hits(tasks, id.value)
              k == First(hits)
          IN  (id.ok /\ hits # {}) =>
                 IF tasks[k].completed = value
                 THEN /\ tasks' = tasks /\ file' = file
                      /\ last'.io = "none"
                      /\ last'.ret = "False"
                      /\ last'.msg = IF value THEN MsgAlreadyCompleted
                                     ELSE MsgAlreadyIncomplete
                 ELSE /\ tasks' = [tasks EXCEPT ![k].completed = value]
                      /\ last'.io # "none"
                      /\ (last'.io = "ok" => file'.text = json_dump(tasks'))]_vars

C5_Witness ==
    /\ last.op = "mark_complete"
    /\ last.msg = MsgAlreadyCompleted
    /\ last.io = "none"
    /\ Len(tasks) = 3
    /\ file.exists
    /\ json_load(file.text).ok
    /\ json_load(file.text).value # tasks

\* C6, as stated: clear with no completed task reports that, without asking
\* and without a change; with N >= 1 completed tasks and the answer yes it
\* removes those N, keeps the pending tasks in order and reports N cleared;
\* with another answer the list stays as it was.
C6_ClearReportsCount ==
    [][last'.op = "clear" =>
          LET N == Len(SelectSeq(tasks, IsCompleted))
          IN  IF N = 0
              THEN /\ tasks' = tasks /\ file' = file
                   /\ ~last'.prompted
                   /\ last'.msg = MsgNoCompleted
              ELSE IF lower(last'.confirm) = Yes
              THEN /\ tasks' = SelectSeq(tasks, NotDone)
                   /\ last'.msg = MsgCleared
                   /\ last'.n = N
              ELSE /\ tasks' = tasks /\ file' = file]_vars

\* C6, amended: as above, but the N cleared are reported when save_tasks
\* succeeds; when it fails the N tasks are removed all the same and the call
\* returns False with the save error only.
C6_ClearCompleted ==
    [][last'.op = "clear" =>
          LET N == Len(SelectSeq(tasks, IsCompleted))
          IN  IF N = 0
              THEN /\ tasks' = tasks /\ file' = file
                   /\ ~last'.prompted
                   /\ last'.msg = MsgNoCompleted
              ELSE IF lower(last'.confirm) = Yes
              THEN /\ tasks' = SelectSeq(tasks, NotDone)
                   /\ Len(tasks') = Len(tasks) - N
                   /\ last'.io = "ok" =>
                         (last'.msg = MsgCleared /\ last'.n = N /\ last'.ret = "True")
                   /\ last'.io # "ok" =>
                         (last'.msg = MsgErrorSaving /\ last'.ret = "False")
              ELSE /\ tasks' = tasks /\ file' = file]_vars

C6_Witness ==
    /\ last.op = "clear"
    /\ last.msg = MsgCleared
    /\ last.n = 1
    /\ Len(tasks) = 2
    /\ tasks[1].id = 1
    /\ tasks[2].id = 3

\* C7: when save_tasks fails in add, delete, mark or clear, the call returns
\* False with the save error, the list keeps the change the call made, and
\* the file holds what it held, or a broken text.
C7_NoRollback ==
    [][(last'.op # "init" /\ last'.io = "failed") =>
          /\ last'.ret = "False"
          /\ last'.msg = MsgErrorSaving
          /\ tasks' # tasks
          /\ CASE last'.op = "add" ->
                    Len(tasks') = Len(tasks) + 1 /\ SubSeq(tasks', 1, Len(tasks)) = tasks
               [] last'.op = "delete" ->
                    \E k \in 1..Len(tasks) : tasks' = Without(tasks, k)
               [] last'.op = "clear" ->
                    tasks' = SelectSeq(tasks, NotDone)
               [] OTHER ->
                    \E k \in 1..Len(tasks) :
                       tasks' = [tasks EXCEPT ![k].completed = ~tasks[k].completed]
          /\ (file' = file \/ ~json_load(file'.text).ok)]_vars

C7_Witness ==
    /\ last.op = "delete"
    /\ last.io = "failed"
    /\ last.ret = "False"
    /\ Len(tasks) = 2
    /\ file.exists
    /\ json_load(file.text).ok
    /\ Len(json_load(file.text).value) = 3

\* C8: a call whose save succeeds leaves the file holding exactly the list,
\* so that loading it gives an equal list; a call that does not save changes
\* neither the list nor the file; and a store built from a file holding
\* the list holds an equal list.
C8_Persisted ==
    [][/\ (last'.op # "init" /\ last'.io = "ok") => Synced(file', tasks')
       /\ (last'.op # "init" /\ last'.io = "none") =>
             (tasks' = tasks /\ file' = file)
       /\ (last'.op = "init" /\ last'.io = "ok" /\ file.text = json_dump(tasks)) =>
             (tasks' = tasks /\ file' = file)]_vars

C8_Witness ==
    /\ last.op = "init"
    /\ last.io = "ok"
    /\ Len(tasks) = 3
    /\ tasks[1].description = <<"a", Quote>>
    /\ tasks[2].completed
    /\ tasks[3].id = 3
    /\ Synced(file, tasks)

\* C9: viewing changes nothing; the pending view shows exactly the tasks not
\* completed, in order, the full view shows all; the counts reported are
\* those of the whole list, with pending = total - completed.
C9_ListReadOnly ==
    [][last'.op = "view" =>
          /\ tasks' = tasks /\ file' = file
          /\ last'.items = IF last'.show_all THEN tasks ELSE SelectSeq(tasks, NotDone)
          /\ last'.summary.shown <=> last'.items # <<>>
          /\ last'.summary.shown =>
                /\ last'.summary.total = Len(tasks)
                /\ last'.summary.completed =
                      Cardinality({i \in 1..Len(tasks) : tasks[i].completed})
                /\ last'.summary.pending =
                      last'.summary.total - last'.summary.completed
                /\ last'.summary.pending =
                      Cardinality({i \in 1..Len(tasks) : ~tasks[i].completed})]_vars

C9_Witness ==
    /\ last.op = "view"
    /\ ~last.show_all
    /\ last.summary.shown
    /\ Len(tasks) = 3
    /\ Len(last.items) = 2
    /\ last.summary.completed = 1

\* C10: building the store never raises: with no file, with a file that is
\* not JSON and with a failing read the list is empty (a warning or an error
\* is printed in the last two cases), and the file is left as it was.
C10_LoadNeverRaises ==
    [][last'.op = "init" =>
          /\ file' = file
          /\ last'.ret # "Raised"
          /\ ~file.exists => (tasks' = <<>> /\ last'.msg = MsgNone)
          /\ (file.exists /\ last'.io = "failed") =>
                (tasks' = <<>> /\ last'.msg = MsgErrorLoading)
          /\ (file.exists /\ last'.io = "ok" /\ ~json_load(file.text).ok) =>
                (tasks' = <<>> /\ last'.msg = MsgCorrupted)]_vars

C10_Witness ==
    /\ last.op = "init"
    /\ last.msg = MsgCorrupted
    /\ file.exists
    /\ file.text # <<>>
    /\ tasks = <<>>

====
